---- MODULE Spec2Model ----
(***************************************************************************)
(* AutoDiag backend (src/main.py): the diagnose handler and the knowledge  *)
(* base it reads.                                                          *)
(*                                                                         *)
(* Representation.                                                         *)
(*   - A Python str is a sequence of one-character strings.                *)
(*   - An Optional value is <<>> for None and <<v>> for the value v.       *)
(*   - A base score, a boost and a total are Python floats (IEEE doubles): *)
(*     the record [neg, m, e] is the double (-1)^neg * m * 2^e, m an odd   *)
(*     natural number written in limbs, or zero.  Sums and quotients are   *)
(*     rounded to 53 binary digits as the hardware rounds them.            *)
(*   - A likelihood, rounded to 3 decimals, is an integer number of        *)
(*     thousandths (0.405 is 405).                                         *)
(*   - A reason is a sequence of text chunks; concatenation of strings is  *)
(*     concatenation of the chunk sequences.                               *)
(*   - The working list `suggestions` of diagnose is a list of references: *)
(*     <<r, i>> is the i-th dict of the r-th rule of FAULT_CODE_MAP (the   *)
(*     very object stored in the map, since list.extend copies             *)
(*     references), <<0, i>> is the i-th dict of the list literal built    *)
(*     inside the call.                                                    *)
(***************************************************************************)
EXTENDS Integers, Sequences, FiniteSets, TLC

VARIABLES
    FAULT_CODE_MAP,  \* module global: rules in dict order, each [key, items]
    KEYWORD_HINTS,   \* module global: list of [keywords, part, boost]
    last,            \* the latest completed diagnose call: request, locals, response
    calls,           \* number of diagnose calls started so far
    th               \* per worker thread: position and locals of a running diagnose

vars == <<FAULT_CODE_MAP, KEYWORD_HINTS, last, calls, th>>

\* Number of diagnose calls explored in one behaviour; they may overlap.
MaxCalls == 2

\* Number of worker threads of the pool that runs diagnose.
NumThreads == 2

-----------------------------------------------------------------------------
(* Python str operations used by diagnose *)

\* the letters below U+0100 that str.upper() maps to one letter below U+0100,
\* a..z and U+00E0..U+00FE without the division sign U+00F7
LowerChars == <<"a", "b", "c", "d", "e", "f", "g", "h", "i", "j", "k", "l", "m",
                "n", "o", "p", "q", "r", "s", "t", "u", "v", "w", "x", "y", "z",
                "à", "á", "â", "ã", "ä", "å", "æ", "ç", "è", "é", "ê", "ë", "ì",
                "í", "î", "ï", "ð", "ñ", "ò", "ó", "ô", "õ", "ö", "ø", "ù", "ú",
                "û", "ü", "ý", "þ">>

\* their capitals, A..Z and U+00C0..U+00DE without the multiplication sign
\* U+00D7: the letters below U+0100 that str.lower() changes
UpperChars == <<"A", "B", "C", "D", "E", "F", "G", "H", "I", "J", "K", "L", "M",
                "N", "O", "P", "Q", "R", "S", "T", "U", "V", "W", "X", "Y", "Z",
                "À", "Á", "Â", "Ã", "Ä", "Å", "Æ", "Ç", "È", "É", "Ê", "Ë", "Ì",
                "Í", "Î", "Ï", "Ð", "Ñ", "Ò", "Ó", "Ô", "Õ", "Ö", "Ø", "Ù", "Ú",
                "Û", "Ü", "Ý", "Þ">>

\* The value of the one element of a singleton set.  Only({F(x) : x \in {e}})
\* is F(e) with e evaluated once, however often F uses x.
Only(S) ==
    CHOOSE v \in S : TRUE

\* str.isspace for one character: space, \t, \n, \r, \f, \v (0x0b), the
\* separators 0x1c..0x1f, NEL (0x85) and the no-break space (0xa0).  The
\* whitespace characters above U+00FF (U+1680, U+2000..U+200A, U+2028, U+2029,
\* U+202F, U+205F, U+3000) cannot be written in a string of this module and
\* are outside the alphabet of the requests.
IsSpace(c) ==
    c \in {" ", "\t", "\n", "\r", "\f", "", "", "", "", "",
           "", " "}

ToUpper ==
    [c \in {LowerChars[k] : k \in 1..Len(LowerChars)} |->
        UpperChars[CHOOSE k \in 1..Len(LowerChars) : LowerChars[k] = c]]

ToLower ==
    [c \in {UpperChars[k] : k \in 1..Len(UpperChars)} |->
        LowerChars[CHOOSE k \in 1..Len(UpperChars) : UpperChars[k] = c]]

\* str.upper() of the one-character string c, a string: the sharp s U+00DF
\* becomes "SS"; the micro sign U+00B5 and the y with diaeresis U+00FF become
\* the capitals U+039C and U+0178, which no string of this module can hold
\* and which are written as the one-character tokens "U+039C" and "U+0178"
UpperChar(c) ==
    IF c = "ß" THEN <<"S", "S">>
    ELSE IF c = "µ" THEN <<"U+039C">>
    ELSE IF c = "ÿ" THEN <<"U+0178">>
    ELSE IF c \in DOMAIN ToUpper THEN <<ToUpper[c]>>
    ELSE <<c>>

\* str.lower() of the character c (below U+0100 always one character)
LowerChar(c) ==
    IF c \in DOMAIN ToLower THEN ToLower[c] ELSE c

\* str.upper()
RECURSIVE Upper(_)
Upper(s) ==
    IF s = <<>> THEN <<>> ELSE UpperChar(Head(s)) \o Upper(Tail(s))

\* str.lower()
Lower(s) ==
    [k \in 1..Len(s) |-> LowerChar(s[k])]

\* str.strip(): drop leading and trailing whitespace
Strip(s) ==
    Only({ IF keep = {}
           THEN <<>>
           ELSE SubSeq(t, CHOOSE k \in keep : \A j \in keep : k <= j,
                          CHOOSE k \in keep : \A j \in keep : k >= j)
           : t \in {s}, keep \in {{k \in 1..Len(s) : ~IsSpace(s[k])}} })

\* the test written the wrong way round: p.startswith(s)
StartsWithSwapped(s, p) ==
    \E t \in {s}, q \in {p} :
        /\ Len(t) <= Len(q)
        /\ SubSeq(q, 1, Len(t)) = t

\* s.startswith(p)
StartsWith(s, p) ==
    \E t \in {s}, q \in {p} :
        /\ Len(q) <= Len(t)
        /\ SubSeq(t, 1, Len(q)) = q

\* k in s  (substring test)
Contains(k, s) ==
    \E t \in {s}, w \in {k} :
        \E j \in 0..(Len(t) - Len(w)) : SubSeq(t, j + 1, j + Len(w)) = w

\* s.split()[0]: the first whitespace-delimited word (s has one)
FirstWord(s) ==
    Only({ Only({ IF stops = {}
                  THEN t
                  ELSE SubSeq(t, 1, (CHOOSE k \in stops : \A j \in stops : k <= j) - 1)
                  : stops \in {{k \in 1..Len(t) : IsSpace(t[k])}} })
           : t \in {Strip(s)} })

-----------------------------------------------------------------------------
(* Python float arithmetic used by diagnose *)

\* limb base 2^15 of the natural numbers written as little-endian sequences of
\* limbs without a leading zero limb
Base ==
    32768

MinInt(a, b) ==
    IF a <= b THEN a ELSE b

Rest(a) ==
    IF a = <<>> THEN <<>> ELSE Tail(a)

Limb(a) ==
    IF a = <<>> THEN 0 ELSE a[1]

RECURSIVE BigTrim(_)
BigTrim(a) ==
    IF a # <<>> /\ a[Len(a)] = 0 THEN BigTrim(SubSeq(a, 1, Len(a) - 1)) ELSE a

RECURSIVE BigFromInt(_)
BigFromInt(n) ==
    IF n = 0 THEN <<>> ELSE <<n % Base>> \o BigFromInt(n \div Base)

RECURSIVE BigToInt(_)
BigToInt(a) ==
    IF a = <<>> THEN 0 ELSE a[1] + Base * BigToInt(Tail(a))

RECURSIVE BigAddC(_, _, _)
BigAddC(a, b, c) ==
    IF a = <<>> /\ b = <<>>
    THEN (IF c = 0 THEN <<>> ELSE <<c>>)
    ELSE <<(Limb(a) + Limb(b) + c) % Base>>
             \o BigAddC(Rest(a), Rest(b), (Limb(a) + Limb(b) + c) \div Base)

BigAdd(a, b) ==
    BigAddC(a, b, 0)

\* a - b - c for a >= b + c, before the leading zeros are cut
RECURSIVE BigSubC(_, _, _)
BigSubC(a, b, c) ==
    IF a = <<>>
    THEN <<>>
    ELSE IF Limb(a) - Limb(b) - c < 0
    THEN <<Limb(a) - Limb(b) - c + Base>> \o BigSubC(Rest(a), Rest(b), 1)
    ELSE <<Limb(a) - Limb(b) - c>> \o BigSubC(Rest(a), Rest(b), 0)

BigSub(a, b) ==
    BigTrim(BigSubC(a, b, 0))

\* -1, 0, 1 as a < b, a = b, a > b
RECURSIVE BigCmpFrom(_, _, _)
BigCmpFrom(a, b, k) ==
    IF k = 0 THEN 0
    ELSE IF a[k] < b[k] THEN -1
    ELSE IF a[k] > b[k] THEN 1
    ELSE BigCmpFrom(a, b, k - 1)

BigCmp(a, b) ==
    IF Len(a) < Len(b) THEN -1
    ELSE IF Len(a) > Len(b) THEN 1
    ELSE BigCmpFrom(a, b, Len(a))

\* a * k + c for k, c < Base
RECURSIVE BigMulSmallC(_, _, _)
BigMulSmallC(a, k, c) ==
    IF a = <<>>
    THEN (IF c = 0 THEN <<>> ELSE <<c>>)
    ELSE <<(a[1] * k + c) % Base>> \o BigMulSmallC(Tail(a), k, (a[1] * k + c) \div Base)

BigMulSmall(a, k) ==
    IF k = 0 THEN <<>> ELSE BigMulSmallC(a, k, 0)

\* the quotient limbs of a by k < Base, from the top limb down, r the
\* remainder carried in
RECURSIVE BigDivSmallFrom(_, _, _, _)
BigDivSmallFrom(a, k, i, r) ==
    IF i = 0
    THEN <<>>
    ELSE BigDivSmallFrom(a, k, i - 1, (r * Base + a[i]) % k)
             \o <<(r * Base + a[i]) \div k>>

BigDivSmall(a, k) ==
    BigTrim(BigDivSmallFrom(a, k, Len(a), 0))

\* a * 2^s
BigShl(a, s) ==
    IF a = <<>>
    THEN <<>>
    ELSE [i \in 1..(s \div 15) |-> 0] \o BigMulSmall(a, 2 ^ (s % 15))

\* a \div 2^s
BigShr(a, s) ==
    IF Len(a) <= s \div 15
    THEN <<>>
    ELSE BigDivSmall(SubSeq(a, (s \div 15) + 1, Len(a)), 2 ^ (s % 15))

RECURSIVE IntBits(_)
IntBits(n) ==
    IF n = 0 THEN 0 ELSE 1 + IntBits(n \div 2)

\* the number of binary digits of a
BitLen(a) ==
    IF a = <<>> THEN 0 ELSE 15 * (Len(a) - 1) + IntBits(a[Len(a)])

RECURSIVE IntTrailingZeros(_)
IntTrailingZeros(n) ==
    IF n % 2 = 1 THEN 0 ELSE 1 + IntTrailingZeros(n \div 2)

\* the number of zero bits below the lowest set bit of a # 0
RECURSIVE TrailingZeros(_)
TrailingZeros(a) ==
    IF a[1] = 0 THEN 15 + TrailingZeros(Tail(a)) ELSE IntTrailingZeros(a[1])

BigIsOdd(a) ==
    a # <<>> /\ a[1] % 2 = 1

\* the limb at place k (from 1) of a, 0 above its top
LimbAt(a, k) ==
    IF k <= Len(a) THEN a[k] ELSE 0

\* long division by d = b * Base^k, b with its top limb >= Base / 2 and
\* r < d * Base: the quotient limb is the largest c with d * c <= r, one of
\* the estimate from the two top limbs of r and the two numbers below it
RECURSIVE BigDivLoop(_, _, _, _)
BigDivLoop(r, b, k, q) ==
    IF k < 0
    THEN [q |-> BigTrim(q), r |-> r]
    ELSE Only({ Only({ Only({ BigDivLoop(BigSub(r, BigMulSmall(d, c)), b, k - 1, <<c>> \o q)
                              : c \in {IF BigCmp(BigMulSmall(d, est), r) <= 0 THEN est
                                       ELSE IF BigCmp(BigMulSmall(d, est - 1), r) <= 0 THEN est - 1
                                       ELSE est - 2} })
                       : est \in {MinInt(Base - 1,
                                      (LimbAt(r, Len(d) + 1) * Base + LimbAt(r, Len(d)))
                                          \div d[Len(d)])} })
                : d \in {[i \in 1..k |-> 0] \o b} })

\* quotient and remainder of a by b # 0; both are first multiplied by the
\* power of two that brings the top limb of b to Base / 2 or more
BigDivMod(a, b) ==
    Only({ Only({ [q |-> res.q, r |-> BigShr(res.r, sh)]
                  : res \in {BigDivLoop(BigShl(a, sh), BigShl(b, sh),
                                        Len(BigShl(a, sh)) - Len(b), <<>>)} })
           : sh \in {15 - IntBits(b[Len(b)])} })

\* a rounded to 53 significant binary digits, to nearest, a tie to even
Round53(a) ==
    IF BitLen(a) <= 53
    THEN a
    ELSE Only({ Only({ BigShl(IF c > 0 \/ (c = 0 /\ BigIsOdd(q)) THEN BigAdd(q, <<1>>) ELSE q, s)
                       : c \in {BigCmp(BigShl(BigSub(a, BigShl(q, s)), 1), BigShl(<<1>>, s))} })
                : s \in {BitLen(a) - 53}, q \in {BigShr(a, BitLen(a) - 53)} })

\* a Python float: (-1)^neg * m * 2^e with m odd, or zero
FZero ==
    [neg |-> FALSE, m |-> <<>>, e |-> 0]

FOne ==
    [neg |-> FALSE, m |-> <<1>>, e |-> 0]

\* the float of the value (-1)^neg * a * 2^e, a of at most 53 binary digits
FNorm(neg, a, e) ==
    IF a = <<>>
    THEN FZero
    ELSE Only({ [neg |-> neg, m |-> BigShr(a, tz), e |-> e + tz] : tz \in {TrailingZeros(a)} })

\* float(n) for an int 0 <= n < 2^31
FromInt(n) ==
    FNorm(FALSE, BigFromInt(n), 0)

\* m * 2^(e - low): the mantissa of x on the exponent low <= x.e
Aligned(x, low) ==
    BigShl(x.m, x.e - low)

\* -1, 0, 1 as x < y, x = y, x > y
FCmp(x, y) ==
    IF x.neg # y.neg
    THEN (IF x.m = <<>> /\ y.m = <<>> THEN 0 ELSE IF x.neg THEN -1 ELSE 1)
    ELSE Only({ IF x.neg THEN -c ELSE c
                : c \in {BigCmp(Aligned(x, MinInt(x.e, y.e)), Aligned(y, MinInt(x.e, y.e)))} })

\* x + y in double arithmetic: the exact sum rounded to 53 digits
FAdd(x, y) ==
    Only({ Only({ IF x.neg = y.neg
                  THEN FNorm(x.neg, Round53(BigAdd(a, b)), low)
                  ELSE IF BigCmp(a, b) >= 0
                  THEN FNorm(x.neg, Round53(BigSub(a, b)), low)
                  ELSE FNorm(y.neg, Round53(BigSub(b, a)), low)
                  : a \in {Aligned(x, low)}, b \in {Aligned(y, low)} })
           : low \in {MinInt(x.e, y.e)} })

\* x / y in double arithmetic for y # 0: the quotient to 55 or more digits,
\* its last digit set when the division left a remainder, rounded to 53 digits
FDiv(x, y) ==
    IF x.m = <<>>
    THEN FZero
    ELSE Only({ Only({ FNorm(x.neg # y.neg,
                             Round53(IF d.r = <<>> \/ BigIsOdd(d.q) THEN d.q ELSE BigAdd(d.q, <<1>>)),
                             x.e - y.e - s)
                       : d \in {BigDivMod(BigShl(x.m, s), y.m)} })
                : s \in {IF 55 + BitLen(y.m) > BitLen(x.m)
                          THEN 55 + BitLen(y.m) - BitLen(x.m) ELSE 0} })

\* the float literal of the source with h hundredths (0.6 is Hundredths(60)):
\* the double nearest to h/100
Hundredths(h) ==
    FDiv(FromInt(h), FromInt(100))

\* round(x, 3) for x >= 0, in thousandths: x * 1000 exactly, rounded to the
\* nearest integer, a tie to even
Round3(x) ==
    IF x.e >= 0
    THEN BigToInt(BigShl(BigMulSmall(x.m, 1000), x.e))
    ELSE Only({ Only({ BigToInt(IF c > 0 \/ (c = 0 /\ BigIsOdd(q)) THEN BigAdd(q, <<1>>) ELSE q)
                       : c \in {BigCmp(BigShl(BigSub(n, BigShl(q, -x.e)), 1), BigShl(<<1>>, -x.e))} })
                : n \in {BigMulSmall(x.m, 1000)}, q \in {BigShr(BigMulSmall(x.m, 1000), -x.e)} })

-----------------------------------------------------------------------------
(* Part names *)

SparkPlugs ==
    <<"S", "p", "a", "r", "k", " ", "P", "l", "u", "g", "s">>
IgnitionCoils ==
    <<"I", "g", "n", "i", "t", "i", "o", "n", " ", "C", "o", "i", "l", "s">>
FuelInjectors ==
    <<"F", "u", "e", "l", " ", "I", "n", "j", "e", "c", "t", "o", "r", "s">>
VacuumLeak ==
    <<"V", "a", "c", "u", "u", "m", " ", "L", "e", "a", "k">>
O2SensorUpstream ==
    <<"O", "2", " ", "S", "e", "n", "s", "o", "r", " ", "(", "U", "p", "s", "t", "r", "e", "a", "m", ")">>
MafSensor ==
    <<"M", "A", "F", " ", "S", "e", "n", "s", "o", "r">>
FuelPumpFilter ==
    <<"F", "u", "e", "l", " ", "P", "u", "m", "p", "/", "F", "i", "l", "t", "e", "r">>
CatalyticConverter ==
    <<"C", "a", "t", "a", "l", "y", "t", "i", "c", " ", "C", "o", "n", "v", "e", "r", "t", "e", "r">>
O2SensorDownstream ==
    <<"O", "2", " ", "S", "e", "n", "s", "o", "r", " ", "(", "D", "o", "w", "n", "s", "t", "r", "e", "a", "m", ")">>
ExhaustLeak ==
    <<"E", "x", "h", "a", "u", "s", "t", " ", "L", "e", "a", "k">>
ThrottlePositionSensor ==
    <<"T", "h", "r", "o", "t", "t", "l", "e", " ", "P", "o", "s", "i", "t", "i", "o", "n", " ", "S", "e", "n", "s", "o", "r">>
WiringConnector ==
    <<"W", "i", "r", "i", "n", "g", "/", "C", "o", "n", "n", "e", "c", "t", "o", "r">>
Battery ==
    <<"B", "a", "t", "t", "e", "r", "y">>
Alternator ==
    <<"A", "l", "t", "e", "r", "n", "a", "t", "o", "r">>
FuelPump ==
    <<"F", "u", "e", "l", " ", "P", "u", "m", "p">>

-----------------------------------------------------------------------------
(* The knowledge base as written in the source *)

InitFaultCodeMap ==
    << [key |-> <<"P", "0", "3", "0">>,
        items |-> << [part |-> SparkPlugs, base |-> Hundredths(60), reason |-> <<"Engine misfire detected">>],
                     [part |-> IgnitionCoils, base |-> Hundredths(50), reason |-> <<"Weak/no spark">>],
                     [part |-> FuelInjectors, base |-> Hundredths(35), reason |-> <<"Fuel delivery issues">>],
                     [part |-> VacuumLeak, base |-> Hundredths(25), reason |-> <<"Unmetered air causing lean">>] >>],
       [key |-> <<"P", "0", "1", "7">>,
        items |-> << [part |-> O2SensorUpstream, base |-> Hundredths(50), reason |-> <<"Fuel trim lean">>],
                     [part |-> MafSensor, base |-> Hundredths(45), reason |-> <<"Airflow reading incorrect">>],
                     [part |-> VacuumLeak, base |-> Hundredths(40), reason |-> <<"Extra air entering intake">>],
                     [part |-> FuelPumpFilter, base |-> Hundredths(30), reason |-> <<"Low fuel pressure">>] >>],
       [key |-> <<"P", "0", "4", "2">>,
        items |-> << [part |-> CatalyticConverter, base |-> Hundredths(60), reason |-> <<"Efficiency below threshold">>],
                     [part |-> O2SensorDownstream, base |-> Hundredths(40), reason |-> <<"Sensor aging or slow">>],
                     [part |-> ExhaustLeak, base |-> Hundredths(25), reason |-> <<"False oxygen readings">>] >>],
       [key |-> <<"P", "0", "1", "2">>,
        items |-> << [part |-> ThrottlePositionSensor, base |-> Hundredths(50), reason |-> <<"TPS circuit issues">>],
                     [part |-> WiringConnector, base |-> Hundredths(35), reason |-> <<"Signal interruption">>] >>] >>

InitKeywordHints ==
    << [keywords |-> << <<"r", "o", "u", "g", "h", " ", "i", "d", "l", "e">>,
                        <<"s", "h", "a", "k", "e", "s">>,
                        <<"v", "i", "b", "r", "a", "t", "i", "o", "n">> >>,
        part |-> SparkPlugs, boost |-> Hundredths(15)],
       [keywords |-> << <<"s", "t", "a", "l", "l", "s">>,
                        <<"d", "i", "e", "s">>,
                        <<"n", "o", " ", "s", "t", "a", "r", "t">> >>,
        part |-> FuelPump, boost |-> Hundredths(20)],
       [keywords |-> << <<"h", "e", "s", "i", "t", "a", "t", "i", "o", "n">>,
                        <<"l", "a", "g">>,
                        <<"s", "u", "r", "g", "e">> >>,
        part |-> MafSensor, boost |-> Hundredths(12)],
       [keywords |-> << <<"r", "o", "t", "t", "e", "n", " ", "e", "g", "g">>,
                        <<"s", "u", "l", "f", "u", "r">> >>,
        part |-> CatalyticConverter, boost |-> Hundredths(18)],
       [keywords |-> << <<"w", "h", "i", "s", "t", "l", "e">>,
                        <<"h", "i", "s", "s">> >>,
        part |-> VacuumLeak, boost |-> Hundredths(15)] >>

\* The list literal diagnose builds when no rule matched
FallbackSuggestions ==
    << [part |-> Battery, base |-> Hundredths(25), reason |-> <<"Common electrical issue">>],
       [part |-> Alternator, base |-> Hundredths(20), reason |-> <<"Charging system faults">>],
       [part |-> SparkPlugs, base |-> Hundredths(18), reason |-> <<"Wear item, causes misfires">>] >>

-----------------------------------------------------------------------------
(* diagnose, step by step *)

\* Python truthiness of an Optional[str]: None and "" are falsy
Truthy(opt) ==
    /\ opt # <<>>
    /\ opt[1] # <<>>

\* prefix: None unless req.fault_code is truthy, else the stripped,
\* uppercased code cut to its first 4 characters
Prefix(fault_code) ==
    IF ~Truthy(fault_code)
    THEN <<>>
    ELSE LET clean == Upper(Strip(fault_code[1]))
         IN  << IF Len(clean) >= 4 THEN SubSeq(clean, 1, 4) ELSE clean >>

\* for key, items in FAULT_CODE_MAP.items(): if prefix.startswith(key):
\*     suggestions.extend(items)      -- the dicts of the map, by reference
RECURSIVE ExtendMatches(_, _, _)
ExtendMatches(kb, prefix, r) ==
    IF r > Len(kb)
    THEN <<>>
    ELSE (IF StartsWith(prefix, kb[r].key)
          THEN [i \in 1..Len(kb[r].items) |-> <<r, i>>]
          ELSE <<>>) \o ExtendMatches(kb, prefix, r + 1)

\* the working list after the fault-code loop
CodeSuggestions(kb, fault_code) ==
    IF Prefix(fault_code) = <<>>
    THEN <<>>
    ELSE ExtendMatches(kb, Prefix(fault_code)[1], 1)

\* the fallback taken only when the request carries no fault code
SeedFallbackWithoutCodeOnly(kb, fault_code) ==
    IF ~Truthy(fault_code)
    THEN [refs |-> [i \in 1..Len(FallbackSuggestions) |-> <<0, i>>],
          own |-> FallbackSuggestions]
    ELSE [refs |-> CodeSuggestions(kb, fault_code), own |-> <<>>]

\* the working list after `if not suggestions:`: references and the dicts
\* owned by this call
Seed(kb, fault_code) ==
    LET s == CodeSuggestions(kb, fault_code)
    IN  IF s = <<>>
        THEN [refs |-> [i \in 1..Len(FallbackSuggestions) |-> <<0, i>>],
              own |-> FallbackSuggestions]
        ELSE [refs |-> s, own |-> <<>>]

\* the dict a reference points to
Deref(kb, own, ref) ==
    IF ref[1] = 0 THEN own[ref[2]] ELSE kb[ref[1]].items[ref[2]]

\* s["base"] = v on the dict a reference points to
StoreBase(env, ref, v) ==
    IF ref[1] = 0
    THEN [env EXCEPT !.own[ref[2]].base = v]
    ELSE [env EXCEPT !.kb[ref[1]].items[ref[2]].base = v]

\* any(k in desc for k in hint["keywords"])
HintApplies(hint, desc) ==
    \E k \in 1..Len(hint.keywords) : Contains(hint.keywords[k], desc)

\* s["part"].lower().startswith(hint["part"].lower().split()[0])
PartMatches(part, hint) ==
    StartsWith(Lower(part), FirstWord(Lower(hint.part)))

\* if s["part"]...startswith(...): s["base"] += hint["boost"]
BoostOne(env, ref, hint) ==
    Only({ IF PartMatches(Deref(e.kb, e.own, ref).part, hint)
           THEN StoreBase(e, ref, FAdd(Deref(e.kb, e.own, ref).base, hint.boost))
           ELSE e : e \in {env} })

\* for s in suggestions: ...   from the i-th candidate on
RECURSIVE BoostCandidates(_, _, _, _)
BoostCandidates(env, refs, hint, i) ==
    IF i > Len(refs)
    THEN env
    ELSE BoostCandidates(BoostOne(env, refs[i], hint), refs, hint, i + 1)

\* for hint in KEYWORD_HINTS: if any(...): ...   from the h-th hint on; env
\* is the map and the dicts owned by the call
RECURSIVE ApplyBoosts(_, _, _, _, _)
ApplyBoosts(env, refs, hints, desc, h) ==
    IF h > Len(hints)
    THEN env
    ELSE ApplyBoosts(IF HintApplies(hints[h], desc)
                     THEN BoostCandidates(env, refs, hints[h], 1)
                     ELSE env,
                     refs, hints, desc, h + 1)

\* max(0.0, min(1.0, base))
Clamp(base) ==
    IF FCmp(base, FOne) >= 0 THEN FOne
    ELSE IF FCmp(base, FZero) <= 0 THEN FZero
    ELSE base

\* sum(max(0.0, min(1.0, b)) for b in bases) continued from acc: the
\* additions from left to right
RECURSIVE SumClampedFrom(_, _)
SumClampedFrom(acc, bases) ==
    IF bases = <<>>
    THEN acc
    ELSE Only({ SumClampedFrom(a, Tail(bases)) : a \in {FAdd(acc, Clamp(Head(bases)))} })

SumClamped(bases) ==
    SumClampedFrom(FZero, bases)

\* total = sum(...); if total == 0: total = 1.0
Total(bases) ==
    Only({ IF s = FZero THEN FOne ELSE s : s \in {SumClamped(bases)} })

\* round(max(0.0, min(1.0, base)) / total, 3), in thousandths
Likelihood(base, total) ==
    Round3(FDiv(Clamp(base), total))

\* the suffix appended whenever prefix is not None, the empty prefix included
AnnotateWhenNotNone(reason, prefix) ==
    IF prefix # <<>>
    THEN reason \o <<" (matched ">> \o prefix[1] \o <<")">>
    ELSE reason

\* s["reason"] + (f" (matched {prefix})" if prefix else "")
Annotate(reason, prefix) ==
    IF Truthy(prefix)
    THEN reason \o <<" (matched ">> \o prefix[1] \o <<")">>
    ELSE reason

\* the list `ranked` before sorting
Ranked(dicts, total, prefix) ==
    [i \in 1..Len(dicts) |->
        [part |-> dicts[i].part,
         likelihood |-> Likelihood(dicts[i].base, total),
         reason |-> Annotate(dicts[i].reason, prefix)]]

\* the sort without reverse=True: stable, ascending
RECURSIVE InsertAsc(_, _)
InsertAsc(x, sorted) ==
    IF sorted = <<>> THEN <<x>>
    ELSE IF Head(sorted).likelihood <= x.likelihood
    THEN <<Head(sorted)>> \o InsertAsc(x, Tail(sorted))
    ELSE <<x>> \o sorted

RECURSIVE SortAsc(_)
SortAsc(ranked) ==
    IF ranked = <<>> THEN <<>>
    ELSE InsertAsc(ranked[Len(ranked)], SortAsc(SubSeq(ranked, 1, Len(ranked) - 1)))

\* insert x after every element whose likelihood is >= x's
RECURSIVE InsertDesc(_, _)
InsertDesc(x, sorted) ==
    IF sorted = <<>> THEN <<x>>
    ELSE IF Head(sorted).likelihood >= x.likelihood
    THEN <<Head(sorted)>> \o InsertDesc(x, Tail(sorted))
    ELSE <<x>> \o sorted

\* ranked.sort(key=likelihood, reverse=True): stable, descending
RECURSIVE SortDesc(_)
SortDesc(ranked) ==
    IF ranked = <<>> THEN <<>>
    ELSE InsertDesc(ranked[Len(ranked)], SortDesc(SubSeq(ranked, 1, Len(ranked) - 1)))

\* ranked[:5]
Top5(ranked) ==
    SubSeq(ranked, 1, IF Len(ranked) < 5 THEN Len(ranked) ELSE 5)

\* Suggestion(**s): pydantic rejects a likelihood outside [0, 1]
ValidSuggestion(s) ==
    s.likelihood >= 0 /\ s.likelihood <= 1000

\* the document handed to create_document
Document(req, top) ==
    [name |-> req.name, model |-> req.model, fault_code |-> req.fault_code,
     description |-> req.description, suggestions |-> top]

\* the save without the try/except: the exception of create_document leaves
\* the handler
SaveResultUncaught(saved, newId) ==
    [raised |-> ~saved, doc_id |-> IF saved THEN <<newId>> ELSE <<>>]

\* try: doc_id = create_document(...) except Exception: doc_id = None
SaveResult(saved, newId) ==
    [raised |-> FALSE, doc_id |-> IF saved THEN <<newId>> ELSE <<>>]

\* the locals of the handler once the boosts are applied
Boosted(kb, hints, req) ==
    Only({ [env |-> ApplyBoosts([kb |-> kb, own |-> seed.own], seed.refs, hints, desc, 1),
            refs |-> seed.refs]
           : seed \in {Seed(kb, req.fault_code)}, desc \in {Lower(req.description)} })

\* the whole handler on the map kb and the hints: the map it leaves behind,
\* its locals at the return, and the response
Handle(kb, hints, req, saved, newId) ==
    Only({ Only({ Only({ [kb |-> b.env.kb,
                          prefix |-> prefix,
                          refs |-> b.refs,
                          suggestions |-> dicts,
                          bases |-> [i \in 1..Len(dicts) |-> dicts[i].base],
                          total |-> total,
                          top |-> top,
                          doc |-> Document(req, top),
                          response |-> IF /\ ~save.raised
                                          /\ \A i \in 1..Len(top) : ValidSuggestion(top[i])
                                       THEN [status |-> 200, suggestions |-> top, id |-> save.doc_id]
                                       ELSE [status |-> 500, suggestions |-> <<>>, id |-> <<>>]]
                         : top \in {Top5(SortDesc(Ranked(dicts, total, prefix)))} })
                 : dicts \in {[i \in 1..Len(b.refs) |-> Deref(b.env.kb, b.env.own, b.refs[i])]},
                   total \in {Total([i \in 1..Len(b.refs) |->
                                       Deref(b.env.kb, b.env.own, b.refs[i]).base])} })
           : b \in {Boosted(kb, hints, req)},
             prefix \in {Prefix(req.fault_code)},
             save \in {SaveResult(saved, newId)} })

-----------------------------------------------------------------------------
(* Requests *)

Names ==
    { <<"T", "o", "y", "o", "t", "a">> }

Models ==
    { <<"C", "a", "m", "r", "y", " ", "2", "0", "1", "5">> }

\* fault_code: None, "", "  ", "ßé", "P0300", " p0171", "\fP0420\r\n",
\* "\rP0121"
FaultCodes ==
    { <<>>,
      << <<>> >>,
      << <<" ", " ">> >>,
      << <<"ß", "é">> >>,
      << <<"P", "0", "3", "0", "0">> >>,
      << <<" ", "p", "0", "1", "7", "1">> >>,
      << <<"\f", "P", "0", "4", "2", "0", "\r", "\n">> >>,
      << <<"\r", "P", "0", "1", "2", "1">> >> }

\* description: "noise", "Rough Idle", "rough idle, dies, hiss",
\* "Sulfur Été", "flag; whistle"
Descriptions ==
    { <<"n", "o", "i", "s", "e">>,
      <<"R", "o", "u", "g", "h", " ", "I", "d", "l", "e">>,
      <<"r", "o", "u", "g", "h", " ", "i", "d", "l", "e", ",", " ", "d", "i", "e", "s", ",", " ", "h", "i", "s", "s">>,
      <<"S", "u", "l", "f", "u", "r", " ", "É", "t", "é">>,
      <<"f", "l", "a", "g", ";", " ", "w", "h", "i", "s", "t", "l", "e">> }

Requests ==
    [name : Names, model : Models, fault_code : FaultCodes, description : Descriptions]

-----------------------------------------------------------------------------
(* State machine: diagnose calls served by the worker threads of the pool.   *)
(* FastAPI runs the synchronous handler in a thread pool, so calls overlap.  *)
(* A step is one access to a dict of the working list together with the     *)
(* thread-local work that follows it: s["base"] += boost is a read of        *)
(* s["base"] and a later write, the sum and the ranking loop read s["base"]  *)
(* once per candidate, and the call waits in create_document before it       *)
(* builds its response.                                                      *)

NoRequest ==
    [name |-> <<>>, model |-> <<>>, fault_code |-> <<>>, description |-> <<>>]

\* the record of a completed call: its request, whether create_document
\* returned, whether it overlapped no other call (solo), its locals at the
\* return (bases: the values the sum read; suggestions: the dicts as the
\* ranking loop read them) and its response
NoCall ==
    [called |-> FALSE, req |-> NoRequest, saved |-> FALSE, solo |-> FALSE,
     prefix |-> <<>>, refs |-> <<>>, bases |-> <<>>, suggestions |-> <<>>,
     total |-> FZero, top |-> <<>>,
     doc |-> Document(NoRequest, <<>>),
     response |-> [status |-> 0, suggestions |-> <<>>, id |-> <<>>]]

IdleThread ==
    [pc |-> "idle", req |-> NoRequest, solo |-> FALSE, refs |-> <<>>, own |-> <<>>,
     h |-> 0, i |-> 0, tmp |-> FZero, bases |-> <<>>, total |-> FZero,
     suggestions |-> <<>>, top |-> <<>>]

Init ==
    /\ FAULT_CODE_MAP = InitFaultCodeMap
    /\ KEYWORD_HINTS = InitKeywordHints
    /\ last = NoCall
    /\ calls = 0
    /\ th = [t \in 1..NumThreads |-> IdleThread]

\* the next iteration of the boost loops, from hint h and candidate i on, that
\* executes s["base"] += hint["boost"]; <<0, 0>> when the loops are over
RECURSIVE NextBoost(_, _, _, _, _)
NextBoost(kb, hints, t, h, i) ==
    IF h > Len(hints)
    THEN <<0, 0>>
    ELSE IF i > Len(t.refs) \/ ~HintApplies(hints[h], Lower(t.req.description))
    THEN NextBoost(kb, hints, t, h + 1, 1)
    ELSE IF PartMatches(Deref(kb, t.own, t.refs[i]).part, hints[h])
    THEN <<h, i>>
    ELSE NextBoost(kb, hints, t, h, i + 1)

\* the thread at the boost iteration pos, or past the loops and about to read
\* the first candidate for the sum; the sum and the ranking loop over an
\* empty working list read no dict
AtBoost(t, pos) ==
    IF pos # <<0, 0>>
    THEN [t EXCEPT !.pc = "load", !.h = pos[1], !.i = pos[2]]
    ELSE IF t.refs = <<>>
    THEN [t EXCEPT !.pc = "save", !.h = 0, !.i = 0, !.total = Total(<<>>),
                   !.top = Top5(SortDesc(Ranked(<<>>, Total(<<>>), Prefix(t.req.fault_code))))]
    ELSE [t EXCEPT !.pc = "total", !.h = 0, !.i = 1]

\* the pool hands a request to its first free worker: the fault-code loop and
\* the fallback.  The call is solo while no other call runs beside it.
Begin(t, req) ==
    /\ calls < MaxCalls
    /\ th[t].pc = "idle"
    /\ \A u \in 1..(t - 1) : th[u].pc # "idle"
    /\ \E seed \in {Seed(FAULT_CODE_MAP, req.fault_code)} :
         \E new \in {[IdleThread EXCEPT
                         !.req = req, !.refs = seed.refs, !.own = seed.own,
                         !.solo = \A u \in 1..NumThreads : th[u].pc = "idle"]} :
             th' = [u \in 1..NumThreads |->
                       IF u = t
                       THEN AtBoost(new, NextBoost(FAULT_CODE_MAP, KEYWORD_HINTS, new, 1, 1))
                       ELSE [th[u] EXCEPT !.solo = FALSE]]
    /\ calls' = calls + 1
    /\ UNCHANGED <<FAULT_CODE_MAP, KEYWORD_HINTS, last>>

\* s["base"] += hint["boost"], first half: read s["base"]
LoadBase(t) ==
    /\ th[t].pc = "load"
    /\ th' = [th EXCEPT ![t].pc = "store",
                        ![t].tmp = Deref(FAULT_CODE_MAP, th[t].own, th[t].refs[th[t].i]).base]
    /\ UNCHANGED <<FAULT_CODE_MAP, KEYWORD_HINTS, last, calls>>

\* s["base"] += hint["boost"], second half: write the sum, then go on to the
\* next iteration that boosts
StoreSum(t) ==
    /\ th[t].pc = "store"
    /\ \E env \in {StoreBase([kb |-> FAULT_CODE_MAP, own |-> th[t].own],
                             th[t].refs[th[t].i],
                             FAdd(th[t].tmp, KEYWORD_HINTS[th[t].h].boost))} :
         \E new \in {[th[t] EXCEPT !.own = env.own, !.tmp = FZero]} :
             /\ FAULT_CODE_MAP' = env.kb
             /\ th' = [th EXCEPT ![t] =
                          AtBoost(new, NextBoost(env.kb, KEYWORD_HINTS, new, new.h, new.i + 1))]
    /\ UNCHANGED <<KEYWORD_HINTS, last, calls>>

\* total = sum(... for s in suggestions), one candidate per step: the generator
\* reads s["base"] of candidate i; after the last candidate the sum is taken
\* over the values read, and if total == 0: total = 1.0
SumTotal(t) ==
    /\ th[t].pc = "total"
    /\ \E bases \in {Append(th[t].bases,
                             Deref(FAULT_CODE_MAP, th[t].own, th[t].refs[th[t].i]).base)} :
         th' = [th EXCEPT ![t] =
                   IF th[t].i < Len(th[t].refs)
                   THEN [th[t] EXCEPT !.bases = bases, !.i = th[t].i + 1]
                   ELSE [th[t] EXCEPT !.pc = "rank", !.bases = bases, !.i = 1,
                                      !.total = Total(bases)]]
    /\ UNCHANGED <<FAULT_CODE_MAP, KEYWORD_HINTS, last, calls>>

\* the ranking loop, one iteration per step: read the dict of candidate i;
\* after the last candidate the entries of ranked, the sort and the cut to
\* five
Rank(t) ==
    /\ th[t].pc = "rank"
    /\ \E dicts \in {Append(th[t].suggestions,
                             Deref(FAULT_CODE_MAP, th[t].own, th[t].refs[th[t].i]))} :
         th' = [th EXCEPT ![t] =
                   IF th[t].i < Len(th[t].refs)
                   THEN [th[t] EXCEPT !.suggestions = dicts, !.i = th[t].i + 1]
                   ELSE [th[t] EXCEPT
                            !.pc = "save", !.suggestions = dicts, !.i = 0,
                            !.top = Top5(SortDesc(Ranked(dicts, th[t].total,
                                                         Prefix(th[t].req.fault_code))))]]
    /\ UNCHANGED <<FAULT_CODE_MAP, KEYWORD_HINTS, last, calls>>

\* create_document returns an id (saved) or raises, then the response is
\* built from top and the worker is free again
Save(t, saved) ==
    /\ th[t].pc = "save"
    /\ \E top \in {th[t].top}, save \in {SaveResult(saved, calls)} :
         last' = [called |-> TRUE, req |-> th[t].req, saved |-> saved,
                  solo |-> th[t].solo,
                  prefix |-> Prefix(th[t].req.fault_code),
                  refs |-> th[t].refs, bases |-> th[t].bases,
                  suggestions |-> th[t].suggestions,
                  total |-> th[t].total, top |-> top,
                  doc |-> Document(th[t].req, top),
                  response |->
                      IF /\ ~save.raised
                         /\ \A i \in 1..Len(top) : ValidSuggestion(top[i])
                      THEN [status |-> 200, suggestions |-> top, id |-> save.doc_id]
                      ELSE [status |-> 500, suggestions |-> <<>>, id |-> <<>>]]
    /\ th' = [th EXCEPT ![t] = IdleThread]
    /\ UNCHANGED <<FAULT_CODE_MAP, KEYWORD_HINTS, calls>>

Next ==
    \E t \in 1..NumThreads :
        \/ \E req \in Requests : Begin(t, req)
        \/ LoadBase(t)
        \/ StoreSum(t)
        \/ SumTotal(t)
        \/ Rank(t)
        \/ \E saved \in BOOLEAN : Save(t, saved)

Spec ==
    Init /\ [][Next]_vars

-----------------------------------------------------------------------------
(* Vocabulary of the claims *)

\* the description holds no keyword of any hint
NoHintKeyword(description) ==
    \A h \in 1..Len(InitKeywordHints) :
        ~HintApplies(InitKeywordHints[h], Lower(description))

\* the description holds the keyword "rough idle"
HasRoughIdle(description) ==
    Contains(<<"r", "o", "u", "g", "h", " ", "i", "d", "l", "e">>, Lower(description))

\* the description holds "rough idle" and no keyword of another hint
OnlyRoughIdle(description) ==
    /\ HasRoughIdle(description)
    /\ \A h \in 1..Len(InitKeywordHints) :
          InitKeywordHints[h].part # SparkPlugs
              => ~HintApplies(InitKeywordHints[h], Lower(description))

\* the fault code is absent or its prefix starts with no key of the map
MatchesNoRule(fault_code) ==
    \/ Prefix(fault_code) = <<>>
    \/ \A r \in 1..Len(InitFaultCodeMap) :
          ~StartsWith(Prefix(fault_code)[1], InitFaultCodeMap[r].key)

P0300 ==
    << <<"P", "0", "3", "0", "0">> >>

\* the likelihood a response gives Spark Plugs (it lists the part once)
SparkLikelihood(suggestions) ==
    LET i == CHOOSE k \in 1..Len(suggestions) : suggestions[k].part = SparkPlugs
    IN  suggestions[i].likelihood

RECURSIVE SumLikelihood(_)
SumLikelihood(suggestions) ==
    IF suggestions = <<>> THEN 0
    ELSE Head(suggestions).likelihood + SumLikelihood(Tail(suggestions))

Abs(n) ==
    IF n < 0 THEN -n ELSE n

-----------------------------------------------------------------------------
(* Claims *)

\* C1: two consecutive diagnose calls with identical inputs return identical
\* suggestion lists (parts, likelihoods, reasons, order).  Stated for two
\* calls that complete one after the other and overlap no other call.
C1_Idempotent ==
    [][(/\ last.called /\ last'.called
        /\ last.solo /\ last'.solo
        /\ last'.req = last.req)
         => last'.response.suggestions = last.response.suggestions]_vars

\* C2: after any sequence of diagnose calls FAULT_CODE_MAP and KEYWORD_HINTS
\* equal their values at process start.
C2_KnowledgeBaseUnchanged ==
    /\ FAULT_CODE_MAP = InitFaultCodeMap
    /\ KEYWORD_HINTS = InitKeywordHints

\* C3: every diagnose call returns between 1 and 5 suggestions, each with a
\* likelihood in [0, 1], sorted by likelihood in non-increasing order.
C3_RangeAndOrder ==
    last.called =>
        /\ last.response.status = 200
        /\ Len(last.response.suggestions) \in 1..5
        /\ \A i \in 1..Len(last.response.suggestions) :
              /\ last.response.suggestions[i].likelihood >= 0
              /\ last.response.suggestions[i].likelihood <= 1000
        /\ \A i \in 1..(Len(last.response.suggestions) - 1) :
              last.response.suggestions[i].likelihood
                  >= last.response.suggestions[i + 1].likelihood

\* a second call that ran beside another call on the same rule, read other
\* bases in the ranking loop than in the sum, and returns four suggestions
C3_Witness ==
    /\ last.called
    /\ calls = 2
    /\ ~last.solo
    /\ Len(last.response.suggestions) = 4
    /\ last.bases # [i \in 1..Len(last.suggestions) |-> last.suggestions[i].base]

\* C4: for every request and after any sequence of earlier calls the returned
\* likelihoods sum to 1.0 within 0.0005 per returned suggestion, unless the
\* clamped scores of all candidates sum to 0: then total is 1.0 and every
\* likelihood is 0.
C4_SumIsOne ==
    last.called =>
        IF SumClamped(last.bases) = FZero
        THEN /\ last.total = FOne
             /\ \A i \in 1..Len(last.response.suggestions) :
                   last.response.suggestions[i].likelihood = 0
        ELSE 2 * Abs(SumLikelihood(last.response.suggestions) - 1000)
                 <= Len(last.response.suggestions)

\* C5: concurrent diagnose calls need no coordination, the knowledge base is
\* only read: whatever the interleaving, each call returns the suggestions
\* it returns when run alone on the initial knowledge base.
C5_ParallelCallsIsolated ==
    last.called =>
        last.response.suggestions
            = Handle(InitFaultCodeMap, InitKeywordHints, last.req, TRUE, 0).response.suggestions

\* C6: with no fault code, or one that matches no rule, and a description
\* without hint keyword, the response is Battery 0.397, Alternator 0.317,
\* Spark Plugs 0.286, in this order.
C6_FallbackTriple ==
    (last.called /\ MatchesNoRule(last.req.fault_code)
                 /\ NoHintKeyword(last.req.description)) =>
        /\ Len(last.response.suggestions) = 3
        /\ [i \in 1..3 |-> last.response.suggestions[i].part]
               = <<Battery, Alternator, SparkPlugs>>
        /\ [i \in 1..3 |-> last.response.suggestions[i].likelihood]
               = <<397, 317, 286>>

\* a fallback call with a fault code that matches no rule, after calls that
\* changed the map
C6_Witness ==
    /\ last.called
    /\ calls = 2
    /\ FAULT_CODE_MAP # InitFaultCodeMap
    /\ last.req.fault_code # <<>>
    /\ MatchesNoRule(last.req.fault_code)
    /\ NoHintKeyword(last.req.description)
    /\ Len(last.response.suggestions) = 3

\* C7: for fault code "P0300", a call whose description contains "rough idle"
\* returns a Spark Plugs likelihood strictly greater than a call with a
\* description without hint keyword, whatever calls preceded them.  Stated for
\* two calls that follow each other, in either order, and overlap no other
\* call, and for the descriptions whose only hint keyword is "rough idle" (the
\* case the claim is written for).
C7_RoughIdleRaisesSpark ==
    [][(/\ last.called /\ last'.called
        /\ last.solo /\ last'.solo
        /\ last.req.fault_code = P0300 /\ last'.req.fault_code = P0300)
         => /\ (OnlyRoughIdle(last.req.description) /\ NoHintKeyword(last'.req.description))
                 => SparkLikelihood(last.response.suggestions)
                        > SparkLikelihood(last'.response.suggestions)
            /\ (NoHintKeyword(last.req.description) /\ OnlyRoughIdle(last'.req.description))
                 => SparkLikelihood(last'.response.suggestions)
                        > SparkLikelihood(last.response.suggestions)]_vars

\* C8 as stated: when prefix is non-null every returned reason is the
\* candidate's reason followed by " (matched <prefix>)"; when no fault code is
\* given it is the candidate's reason.
C8_SuffixWhenPrefixNonNull ==
    last.called =>
        \A i \in 1..Len(last.response.suggestions) :
            \E j \in 1..Len(last.suggestions) :
                /\ last.suggestions[j].part = last.response.suggestions[i].part
                /\ last.response.suggestions[i].reason
                     = IF last.prefix # <<>>
                       THEN last.suggestions[j].reason
                                \o <<" (matched ">> \o last.prefix[1] \o <<")">>
                       ELSE last.suggestions[j].reason

\* C8 amended: when prefix is a non-empty string every returned reason is the
\* candidate's reason followed by " (matched <prefix>)"; when the fault code
\* is absent, empty or only whitespace it is the candidate's reason.
C8_SuffixWhenPrefixNonEmpty ==
    last.called =>
        /\ last.prefix = (IF last.req.fault_code = <<>> \/ last.req.fault_code = << <<>> >>
                          THEN <<>>
                          ELSE << SubSeq(Upper(Strip(last.req.fault_code[1])), 1,
                                         IF Len(Upper(Strip(last.req.fault_code[1]))) < 4
                                         THEN Len(Upper(Strip(last.req.fault_code[1])))
                                         ELSE 4) >>)
        /\ \A i \in 1..Len(last.response.suggestions) :
              \E j \in 1..Len(last.suggestions) :
                  /\ last.suggestions[j].part = last.response.suggestions[i].part
                  /\ last.response.suggestions[i].reason
                       = IF last.prefix # <<>> /\ last.prefix # << <<>> >>
                         THEN last.suggestions[j].reason
                                  \o <<" (matched ">> \o last.prefix[1] \o <<")">>
                         ELSE last.suggestions[j].reason

\* a call with a whitespace-only fault code: prefix is the empty string and
\* the reasons of the fallback candidates carry no suffix
C8_Witness ==
    /\ last.called
    /\ last.req.fault_code = << <<" ", " ">> >>
    /\ last.prefix = << <<>> >>
    /\ Len(last.response.suggestions) = 3
    /\ last.response.suggestions[1].reason = <<"Common electrical issue">>

\* C9: when create_document raises, diagnose still answers with the
\* suggestion list it computed, id = null, and no error.
C9_SaveFailureTolerated ==
    (last.called /\ ~last.saved) =>
        /\ last.response.status = 200
        /\ last.response.id = <<>>
        /\ last.response.suggestions = last.top
        /\ last.doc.suggestions = last.top
        /\ Len(last.response.suggestions) >= 1

\* a call whose save failed and that answered with suggestions and no id
C9_Witness ==
    /\ last.called
    /\ ~last.saved
    /\ last.response.status = 200
    /\ last.response.id = <<>>
    /\ Len(last.response.suggestions) = 4

\* C10: at most one rule contributes candidates, and only when prefix equals
\* its key, so a code shorter than 4 characters gets the fallback list; the
\* working list holds at most 4 candidates and the response holds all of them.
C10_OneRuleNoTruncation ==
    last.called =>
        /\ Cardinality({last.refs[i][1] : i \in 1..Len(last.refs)}) = 1
        /\ \A i \in 1..Len(last.refs) :
              last.refs[i][1] # 0 =>
                  /\ last.prefix = <<InitFaultCodeMap[last.refs[i][1]].key>>
                  /\ Len(Strip(last.req.fault_code[1])) >= 4
        /\ Len(last.suggestions) <= 4
        /\ Len(last.response.suggestions) = Len(last.suggestions)
        /\ \A j \in 1..Len(last.suggestions) :
              \E i \in 1..Len(last.response.suggestions) :
                  last.response.suggestions[i].part = last.suggestions[j].part

\* a call matched by one rule whose four candidates are all returned
C10_Witness ==
    /\ last.called
    /\ calls = 2
    /\ \A i \in 1..Len(last.refs) : last.refs[i][1] = 1
    /\ Len(last.suggestions) = 4
    /\ Len(last.response.suggestions) = 4

====
